---------------------------- MODULE Spec2Model ----------------------------
(***************************************************************************)
(* Model of nunchuckadapter::NunchuckReader (src/include/nunchuckreader.h) *)
(* One driver object: its constructor (delay check, bus open, handshake),  *)
(* and the read calls readRawData / readDeviceValues issued by one caller. *)
(* The wiringPi transport and the sleep primitive are the environment:     *)
(* every call is logged, and every return value is drawn from a small set. *)
(***************************************************************************)
EXTENDS Integers, Sequences, FiniteSets, TLC

\* ------------------------------------------------------------ constants

NUNCHUCK_I2C_ADDRESS == 82

MINIMUN_CIRCUIT_ADAPTATION_WAIT_MICROSECONDS == 300

DEFAULT_CIRCUIT_ADAPTATION_WAIT_MICROSECONDS == 500

\* enum InitializationMode { ENCRYPTED, NOT_ENCRYPTED }
ENCRYPTED == 0

NOT_ENCRYPTED == 1

\* An enumerator value outside the enum (a cast integer): the switch's default.
UnrecognizedMode == NOT_ENCRYPTED + 1

\* ------------------------------------------------------------ bounds

\* Read calls (readRawData or readDeviceValues) the caller makes.
MaxReads == 2

\* ------------------------------------------------------------ input sets

Modes == {ENCRYPTED, NOT_ENCRYPTED, UnrecognizedMode}

\* Delays the caller may pass to the two-argument constructor.
Delays == {299, 300, 500}

\* Values the uninitialized int members may hold before the constructor
\* assigns them.
Garbage == {-1, 500}

\* wiringPiI2CSetup: a file descriptor, or a negative value on failure.
SetupResults == {-1, 3}

\* wiringPiI2CWriteReg8 / wiringPiI2CWrite: 0, or -1 on failure.
WriteResults == {0, -1}

\* Bytes the device can deliver: 0x00 and 0xE5 (1110 0101: the packed bits
\* 7..6 = 3, 5..4 = 2, 3..2 = 1, bit 1 = 0, bit 0 = 1).
ByteSamples == {0, 229}

\* wiringPiI2CRead: the byte read, or -1 on failure.
ReadResults == ByteSamples \cup {-1}

\* ------------------------------------------------------------ int arithmetic
\* Bitwise operators of C++ int in two's complement.  \div and % are floor
\* division and its remainder, so halving ends at 0 or at -1 (all ones).
\* No value of the model leaves the range of a 32-bit int.

RECURSIVE BitAnd(_, _)
BitAnd(a, b) ==
    IF a = 0 \/ b = 0 THEN 0
    ELSE IF a = -1 THEN b
    ELSE IF b = -1 THEN a
    ELSE (a % 2) * (b % 2) + 2 * BitAnd(a \div 2, b \div 2)

RECURSIVE BitOr(_, _)
BitOr(a, b) ==
    IF a = 0 THEN b
    ELSE IF b = 0 THEN a
    ELSE IF a = -1 \/ b = -1 THEN -1
    ELSE ((a % 2) + (b % 2) - (a % 2) * (b % 2)) + 2 * BitOr(a \div 2, b \div 2)

RECURSIVE BitXor(_, _)
BitXor(a, b) ==
    IF a = 0 THEN b
    ELSE IF b = 0 THEN a
    ELSE IF a = -1 THEN -b - 1
    ELSE IF b = -1 THEN -a - 1
    ELSE ((a + b) % 2) + 2 * BitXor(a \div 2, b \div 2)

ShiftLeft(a, n) == a * 2^n

ShiftRight(a, n) == a \div 2^n

\* ------------------------------------------------------------ pure functions

\* decrypt without the addition.
decryptXorOnly(readByte) == BitXor(readByte, 23)

\* int decrypt(const int readByte)
decrypt(readByte) == BitXor(readByte, 23) + 23

\* parseDeviceBuffer with the mask and shift of the X axis repeated for Y.
parseDeviceBufferMaskRepeated(buf) ==
    [ joystickPositionX |-> buf[0],
      joystickPositionY |-> buf[1],
      accelerationOnX |-> BitOr(ShiftLeft(buf[2], 2), ShiftRight(BitAnd(buf[5], 192), 6)),
      accelerationOnY |-> BitOr(ShiftLeft(buf[3], 2), ShiftRight(BitAnd(buf[5], 192), 6)),
      accelerationOnZ |-> BitOr(ShiftLeft(buf[4], 2), ShiftRight(BitAnd(buf[5], 12), 2)),
      buttonCState |-> ShiftRight(BitAnd(buf[5], 2), 1),
      buttonZState |-> BitAnd(buf[5], 1) ]

\* RawNunchuckData parseDeviceBuffer(int *readBuffer)
parseDeviceBuffer(buf) ==
    [ joystickPositionX |-> buf[0],
      joystickPositionY |-> buf[1],
      accelerationOnX |-> BitOr(ShiftLeft(buf[2], 2), ShiftRight(BitAnd(buf[5], 192), 6)),
      accelerationOnY |-> BitOr(ShiftLeft(buf[3], 2), ShiftRight(BitAnd(buf[5], 48), 4)),
      accelerationOnZ |-> BitOr(ShiftLeft(buf[4], 2), ShiftRight(BitAnd(buf[5], 12), 2)),
      buttonCState |-> ShiftRight(BitAnd(buf[5], 2), 1),
      buttonZState |-> BitAnd(buf[5], 1) ]

\* readDeviceValues handing each button state to the other button.
NunchuckDataOfButtonsSwapped(raw) ==
    [ joystick |-> <<raw.joystickPositionX, raw.joystickPositionY>>,
      accelerometer |-> <<raw.accelerationOnX, raw.accelerationOnY, raw.accelerationOnZ>>,
      buttonZ |-> raw.buttonCState,
      buttonC |-> raw.buttonZState ]

\* The NunchuckData built by readDeviceValues: the four constructor arguments
\* in call order (joystick, accelerometer, buttonZ, buttonC).
NunchuckDataOf(raw) ==
    [ joystick |-> <<raw.joystickPositionX, raw.joystickPositionY>>,
      accelerometer |-> <<raw.accelerationOnX, raw.accelerationOnY, raw.accelerationOnZ>>,
      buttonZ |-> raw.buttonZState,
      buttonC |-> raw.buttonCState ]

\* What a NunchuckData exposes (nunchuckdata.h): Joystick(x, y),
\* Accelerometer(x, y, z) and ButtonState(c, z), each constructor argument
\* under the accessor of its name.
StructuredReading(d) ==
    [ joystick |-> [x |-> d.joystick[1], y |-> d.joystick[2]],
      accelerometer |-> [x |-> d.accelerometer[1], y |-> d.accelerometer[2],
                         z |-> d.accelerometer[3]],
      buttons |-> [c |-> d.buttonC, z |-> d.buttonZ] ]

\* Placeholders of the caller's result slots while no call has returned.
NoRawData == parseDeviceBuffer([k \in 0..5 |-> 0])

NoData == NunchuckDataOf(NoRawData)

\* ------------------------------------------------------------ bus events
\* One logged call: <<operation, handle, register or argument, value, result>>.

I2CSetup(addr, rc) == <<"setup", 0, addr, 0, rc>>

I2CWriteReg8(fd, reg, val, rc) == <<"writeReg8", fd, reg, val, rc>>

I2CWrite(fd, val, rc) == <<"write", fd, 0, val, rc>>

I2CRead(fd, rc) == <<"read", fd, 0, 0, rc>>

SleepFor(us) == <<"sleep", 0, us, 0, 0>>

\* ------------------------------------------------------------ state

VARIABLES
    pc,                                 \* position of the running call
    ctor,                               \* which constructor the caller used
    paramWait,                          \* argument circuitAdaptationWaitMicroseconds
    initializationMode,                 \* argument initializationMode
    encyptedModeEnabled,                \* member
    i2CPortFileDescriptor,              \* member
    circuitAdaptationWaitMicrosecons,   \* member
    thrown,                             \* what the constructor or a read threw
    trace,                              \* bus and sleep calls of the constructor
    cycle,                              \* bus and sleep calls of the current read call
    call,                               \* the public read operation in progress
    reads,                              \* read calls made so far
    readBuffer,                         \* local int readBuffer[6] of readRawData
    i,                                  \* loop counter of fetchDeviceBuffer
    retKind,                            \* what the last read call returned
    rawData,                            \* RawNunchuckData returned by readRawData
    data,                               \* NunchuckData returned by readDeviceValues
    readByte,                           \* argument of a call of decrypt
    decrypted,                          \* value a call of decrypt returned
    locking,                            \* whether the callers hold a lock per read call
    lock,                               \* the thread holding the callers' lock, or 0
    tpc,                                \* per thread: position in its read call
    ti,                                 \* per thread: loop counter of fetchDeviceBuffer
    tbuf,                               \* per thread: local readBuffer
    traw,                               \* per thread: RawNunchuckData returned
    tcalls,                             \* per thread: read calls made
    intruded,                           \* per thread: another thread used the bus
                                        \* between its request write and 6th read
    devPointer                          \* the device's register pointer

members == <<encyptedModeEnabled, i2CPortFileDescriptor, circuitAdaptationWaitMicrosecons>>

arguments == <<ctor, paramWait, initializationMode>>

readState == <<cycle, call, reads, readBuffer, i, retKind, rawData, data>>

\* Callers' threads sharing the driver, and the device they talk to.
threadState == <<locking, lock, tpc, ti, tbuf, traw, tcalls, intruded, devPointer>>

\* Argument and result of decrypt, which no operation of the driver calls,
\* and the state of concurrent callers.
aux == <<readByte, decrypted, threadState>>

Threads == {1, 2}

\* No thread is calling the driver.
ThreadsIdle ==
    /\ lock = 0
    /\ tpc = [t \in Threads |-> "idle"]
    /\ ti = [t \in Threads |-> 0]
    /\ tbuf = [t \in Threads |-> <<>>]
    /\ traw = [t \in Threads |-> NoRawData]
    /\ tcalls = [t \in Threads |-> 0]
    /\ intruded = [t \in Threads |-> FALSE]
    /\ devPointer = 0

vars == <<pc, arguments, members, thrown, trace, readState, aux>>

\* decrypt is not being called.
AuxIdle ==
    /\ readByte = 0
    /\ decrypted = 0
    /\ locking = FALSE
    /\ ThreadsIdle

\* The constructor has returned normally: the object exists.
InitDone == pc \in {"Ready", "fetch_write", "fetch_sleep", "fetch_loop", "parse", "repackage"}

Init ==
    /\ pc = "ctor"
    /\ ctor \in {"wait_and_mode", "mode_only"}
    /\ initializationMode \in Modes
    \* explicit NunchuckReader(mode) delegates with the default wait
    /\ paramWait \in IF ctor = "mode_only"
                     THEN {DEFAULT_CIRCUIT_ADAPTATION_WAIT_MICROSECONDS}
                     ELSE Delays
    /\ encyptedModeEnabled \in BOOLEAN
    /\ i2CPortFileDescriptor \in Garbage
    /\ circuitAdaptationWaitMicrosecons \in Garbage
    /\ thrown = "none"
    /\ trace = <<>>
    /\ cycle = <<>>
    /\ call = "none"
    /\ reads = 0
    /\ readBuffer = <<>>
    /\ i = 0
    /\ retKind = "none"
    /\ rawData = NoRawData
    /\ data = NoData
    /\ AuxIdle

\* ------------------------------------------------------------ constructor

\* The delay check with the floor itself rejected.
WaitTooShortOffByOne(w) == w <= MINIMUN_CIRCUIT_ADAPTATION_WAIT_MICROSECONDS

WaitTooShort(w) == w < MINIMUN_CIRCUIT_ADAPTATION_WAIT_MICROSECONDS

\* The constructor storing the default wait instead of its argument.
ConstructorStoringDefault ==
    /\ pc = "ctor"
    /\ IF WaitTooShort(paramWait)
       THEN /\ thrown' = "InvalidConfiguration"
            /\ pc' = "Failed"
            /\ UNCHANGED members
       ELSE /\ circuitAdaptationWaitMicrosecons' = DEFAULT_CIRCUIT_ADAPTATION_WAIT_MICROSECONDS
            /\ pc' = "initI2C"
            /\ UNCHANGED <<thrown, encyptedModeEnabled, i2CPortFileDescriptor>>
    /\ UNCHANGED <<aux, arguments, trace, readState>>

\* The constructor validating the mode together with the delay, before the
\* bus is opened.
ConstructorValidatingModeFirst ==
    /\ pc = "ctor"
    /\ IF WaitTooShort(paramWait)
       THEN /\ thrown' = "InvalidConfiguration"
            /\ pc' = "Failed"
            /\ UNCHANGED members
       ELSE IF initializationMode \notin {ENCRYPTED, NOT_ENCRYPTED}
       THEN /\ thrown' = "InvalidMode"
            /\ pc' = "Failed"
            /\ UNCHANGED members
       ELSE /\ circuitAdaptationWaitMicrosecons' = paramWait
            /\ pc' = "initI2C"
            /\ UNCHANGED <<thrown, encyptedModeEnabled, i2CPortFileDescriptor>>
    /\ UNCHANGED <<aux, arguments, trace, readState>>

\* NunchuckReader(wait, mode): the delay check and the member assignment.
Constructor ==
    /\ pc = "ctor"
    /\ IF WaitTooShort(paramWait)
       THEN /\ thrown' = "InvalidConfiguration"
            /\ pc' = "Failed"
            /\ UNCHANGED members
       ELSE /\ circuitAdaptationWaitMicrosecons' = paramWait
            /\ pc' = "initI2C"
            /\ UNCHANGED <<thrown, encyptedModeEnabled, i2CPortFileDescriptor>>
    /\ UNCHANGED <<aux, arguments, trace, readState>>

\* The handle of wiringPiI2CSetup left unchecked.
SetupFailedUnchecked(fd) == FALSE

SetupFailed(fd) == fd < 0

initI2C ==
    /\ pc = "initI2C"
    /\ \E fd \in SetupResults :
         /\ i2CPortFileDescriptor' = fd
         /\ trace' = Append(trace, I2CSetup(NUNCHUCK_I2C_ADDRESS, fd))
         /\ IF SetupFailed(fd)
            THEN thrown' = "TransportError" /\ pc' = "Failed"
            ELSE thrown' = thrown /\ pc' = "switch"
    /\ UNCHANGED <<aux, arguments, encyptedModeEnabled, circuitAdaptationWaitMicrosecons, readState>>

\* The switch without its default case: an unrecognized mode falls out of it
\* and the constructor returns.
ModeSwitchNoDefault ==
    /\ pc = "switch"
    /\ CASE initializationMode = ENCRYPTED -> pc' = "enc_write" /\ thrown' = thrown
         [] initializationMode = NOT_ENCRYPTED -> pc' = "plain_write1" /\ thrown' = thrown
         [] OTHER -> pc' = "Ready" /\ thrown' = thrown
    /\ UNCHANGED <<aux, arguments, members, trace, readState>>

\* switch (initializationMode)
ModeSwitch ==
    /\ pc = "switch"
    /\ CASE initializationMode = ENCRYPTED -> pc' = "enc_write" /\ thrown' = thrown
         [] initializationMode = NOT_ENCRYPTED -> pc' = "plain_write1" /\ thrown' = thrown
         [] OTHER -> pc' = "Failed" /\ thrown' = "InvalidMode"
    /\ UNCHANGED <<aux, arguments, members, trace, readState>>

\* initWithEncryption with the wait issued before the register write.
initWithEncryptionWaitFirst ==
    \/ /\ pc = "enc_write"
       /\ trace' = Append(trace, SleepFor(circuitAdaptationWaitMicrosecons))
       /\ pc' = "enc_sleep"
       /\ UNCHANGED <<aux, arguments, members, thrown, readState>>
    \/ /\ pc = "enc_sleep"
       /\ \E rc \in WriteResults :
            trace' = Append(trace, I2CWriteReg8(i2CPortFileDescriptor, 64, 0, rc))
       /\ pc' = "enc_assign"
       /\ UNCHANGED <<aux, arguments, members, thrown, readState>>
    \/ /\ pc = "enc_assign"
       /\ encyptedModeEnabled' = TRUE
       /\ pc' = "Ready"
       /\ UNCHANGED <<aux, arguments, i2CPortFileDescriptor, circuitAdaptationWaitMicrosecons,
                      thrown, trace, readState>>

\* initWithEncryption without the settling wait.
initWithEncryptionNoWait ==
    \/ /\ pc = "enc_write"
       /\ \E rc \in WriteResults :
            trace' = Append(trace, I2CWriteReg8(i2CPortFileDescriptor, 64, 0, rc))
       /\ pc' = "enc_assign"
       /\ UNCHANGED <<aux, arguments, members, thrown, readState>>
    \/ /\ pc = "enc_assign"
       /\ encyptedModeEnabled' = TRUE
       /\ pc' = "Ready"
       /\ UNCHANGED <<aux, arguments, i2CPortFileDescriptor, circuitAdaptationWaitMicrosecons,
                      thrown, trace, readState>>

initWithEncryption ==
    \/ /\ pc = "enc_write"
       /\ \E rc \in WriteResults :
            trace' = Append(trace, I2CWriteReg8(i2CPortFileDescriptor, 64, 0, rc))
       /\ pc' = "enc_sleep"
       /\ UNCHANGED <<aux, arguments, members, thrown, readState>>
    \/ /\ pc = "enc_sleep"
       /\ trace' = Append(trace, SleepFor(circuitAdaptationWaitMicrosecons))
       /\ pc' = "enc_assign"
       /\ UNCHANGED <<aux, arguments, members, thrown, readState>>
    \/ /\ pc = "enc_assign"
       /\ encyptedModeEnabled' = TRUE
       /\ pc' = "Ready"
       /\ UNCHANGED <<aux, arguments, i2CPortFileDescriptor, circuitAdaptationWaitMicrosecons,
                      thrown, trace, readState>>

\* initWithoutEncryption with the wait issued between the two register writes.
initWithoutEncryptionWaitBetween ==
    \/ /\ pc = "plain_write1"
       /\ \E rc \in WriteResults :
            trace' = Append(trace, I2CWriteReg8(i2CPortFileDescriptor, 240, 85, rc))
       /\ pc' = "plain_write2"
       /\ UNCHANGED <<aux, arguments, members, thrown, readState>>
    \/ /\ pc = "plain_write2"
       /\ trace' = Append(trace, SleepFor(circuitAdaptationWaitMicrosecons))
       /\ pc' = "plain_sleep"
       /\ UNCHANGED <<aux, arguments, members, thrown, readState>>
    \/ /\ pc = "plain_sleep"
       /\ \E rc \in WriteResults :
            trace' = Append(trace, I2CWriteReg8(i2CPortFileDescriptor, 251, 0, rc))
       /\ pc' = "plain_assign"
       /\ UNCHANGED <<aux, arguments, members, thrown, readState>>
    \/ /\ pc = "plain_assign"
       /\ encyptedModeEnabled' = FALSE
       /\ pc' = "Ready"
       /\ UNCHANGED <<aux, arguments, i2CPortFileDescriptor, circuitAdaptationWaitMicrosecons,
                      thrown, trace, readState>>

\* initWithoutEncryption setting the flag as initWithEncryption does.
initWithoutEncryptionFlagTrue ==
    \/ /\ pc = "plain_write1"
       /\ \E rc \in WriteResults :
            trace' = Append(trace, I2CWriteReg8(i2CPortFileDescriptor, 240, 85, rc))
       /\ pc' = "plain_write2"
       /\ UNCHANGED <<aux, arguments, members, thrown, readState>>
    \/ /\ pc = "plain_write2"
       /\ \E rc \in WriteResults :
            trace' = Append(trace, I2CWriteReg8(i2CPortFileDescriptor, 251, 0, rc))
       /\ pc' = "plain_sleep"
       /\ UNCHANGED <<aux, arguments, members, thrown, readState>>
    \/ /\ pc = "plain_sleep"
       /\ trace' = Append(trace, SleepFor(circuitAdaptationWaitMicrosecons))
       /\ pc' = "plain_assign"
       /\ UNCHANGED <<aux, arguments, members, thrown, readState>>
    \/ /\ pc = "plain_assign"
       /\ encyptedModeEnabled' = TRUE
       /\ pc' = "Ready"
       /\ UNCHANGED <<aux, arguments, i2CPortFileDescriptor, circuitAdaptationWaitMicrosecons,
                      thrown, trace, readState>>

initWithoutEncryption ==
    \/ /\ pc = "plain_write1"
       /\ \E rc \in WriteResults :
            trace' = Append(trace, I2CWriteReg8(i2CPortFileDescriptor, 240, 85, rc))
       /\ pc' = "plain_write2"
       /\ UNCHANGED <<aux, arguments, members, thrown, readState>>
    \/ /\ pc = "plain_write2"
       /\ \E rc \in WriteResults :
            trace' = Append(trace, I2CWriteReg8(i2CPortFileDescriptor, 251, 0, rc))
       /\ pc' = "plain_sleep"
       /\ UNCHANGED <<aux, arguments, members, thrown, readState>>
    \/ /\ pc = "plain_sleep"
       /\ trace' = Append(trace, SleepFor(circuitAdaptationWaitMicrosecons))
       /\ pc' = "plain_assign"
       /\ UNCHANGED <<aux, arguments, members, thrown, readState>>
    \/ /\ pc = "plain_assign"
       /\ encyptedModeEnabled' = FALSE
       /\ pc' = "Ready"
       /\ UNCHANGED <<aux, arguments, i2CPortFileDescriptor, circuitAdaptationWaitMicrosecons,
                      thrown, trace, readState>>

\* ------------------------------------------------------------ read calls

\* A call of a public read operation on the constructed object.  The caller's
\* result slots and the call's locals start afresh.
Enter(op) ==
    /\ pc = "Ready"
    /\ reads < MaxReads
    /\ call' = op
    /\ reads' = reads + 1
    /\ cycle' = <<>>
    /\ readBuffer' = <<>>
    /\ i' = 0
    /\ retKind' = "none"
    /\ rawData' = NoRawData
    /\ data' = NoData
    /\ pc' = "fetch_write"
    /\ UNCHANGED <<aux, arguments, members, thrown, trace>>

CallReadRawData == Enter("readRawData")

CallReadDeviceValues == Enter("readDeviceValues")

\* The read loop running one iteration too many.
LoopContinuesOneMore(n) == n <= 6

LoopContinues(n) == n < 6

fetchDeviceBuffer ==
    \/ /\ pc = "fetch_write"
       /\ \E rc \in WriteResults :
            cycle' = Append(cycle, I2CWrite(i2CPortFileDescriptor, 0, rc))
       /\ pc' = "fetch_sleep"
       /\ UNCHANGED <<aux, arguments, members, thrown, trace, call, reads, readBuffer, i,
                      retKind, rawData, data>>
    \/ /\ pc = "fetch_sleep"
       /\ cycle' = Append(cycle, SleepFor(circuitAdaptationWaitMicrosecons))
       /\ i' = 0
       /\ pc' = "fetch_loop"
       /\ UNCHANGED <<aux, arguments, members, thrown, trace, call, reads, readBuffer,
                      retKind, rawData, data>>
    \/ /\ pc = "fetch_loop"
       /\ LoopContinues(i)
       /\ \E b \in ReadResults :
            /\ readBuffer' = (i :> b) @@ readBuffer
            /\ cycle' = Append(cycle, I2CRead(i2CPortFileDescriptor, b))
       /\ i' = i + 1
       /\ pc' = "fetch_loop"
       /\ UNCHANGED <<aux, arguments, members, thrown, trace, call, reads,
                      retKind, rawData, data>>
    \/ /\ pc = "fetch_loop"
       /\ ~LoopContinues(i)
       /\ pc' = "parse"
       /\ UNCHANGED <<aux, arguments, members, thrown, trace, readState>>

\* readRawData giving up the bus handle once the frame is decoded.
readRawDataDroppingHandle ==
    /\ pc = "parse"
    /\ rawData' = parseDeviceBuffer(readBuffer)
    /\ i2CPortFileDescriptor' = -1
    /\ IF call = "readRawData"
       THEN retKind' = "raw" /\ pc' = "Ready"
       ELSE retKind' = retKind /\ pc' = "repackage"
    /\ UNCHANGED <<aux, arguments, encyptedModeEnabled, circuitAdaptationWaitMicrosecons,
                   thrown, trace, cycle, call, reads, readBuffer, i, data>>

\* return parseDeviceBuffer(readBuffer), to the caller or to readDeviceValues
readRawData ==
    /\ pc = "parse"
    /\ rawData' = parseDeviceBuffer(readBuffer)
    /\ IF call = "readRawData"
       THEN retKind' = "raw" /\ pc' = "Ready"
       ELSE retKind' = retKind /\ pc' = "repackage"
    /\ UNCHANGED <<aux, arguments, members, thrown, trace, cycle, call, reads, readBuffer, i, data>>

readDeviceValues ==
    /\ pc = "repackage"
    /\ data' = NunchuckDataOf(rawData)
    /\ retKind' = "structured"
    /\ pc' = "Ready"
    /\ UNCHANGED <<aux, arguments, members, thrown, trace, cycle, call, reads, readBuffer, i, rawData>>

\* bool isEncryptedModeEnabled()
isEncryptedModeEnabled == encyptedModeEnabled

\* ------------------------------------------------------------ specification

Next ==
    \/ Constructor
    \/ initI2C
    \/ ModeSwitch
    \/ initWithEncryption
    \/ initWithoutEncryption
    \/ CallReadRawData
    \/ CallReadDeviceValues
    \/ fetchDeviceBuffer
    \/ readRawData
    \/ readDeviceValues

Spec == Init /\ [][Next]_vars

\* ------------------------------------------------------------ pure functions, called alone

\* Joystick bytes and coarse acceleration bytes of the frames decoded alone;
\* the packed byte ranges over all of 0..255.
JoySamples == {0, 128, 255}

AccelSamples == {16, 32, 48, 255}

Bytes == 0..255

\* A constructed driver on which no read is in progress.
Constructed ==
    /\ ctor = "mode_only"
    /\ paramWait = DEFAULT_CIRCUIT_ADAPTATION_WAIT_MICROSECONDS
    /\ initializationMode = NOT_ENCRYPTED
    /\ encyptedModeEnabled = FALSE
    /\ i2CPortFileDescriptor = 3
    /\ circuitAdaptationWaitMicrosecons = DEFAULT_CIRCUIT_ADAPTATION_WAIT_MICROSECONDS
    /\ thrown = "none"
    /\ trace = <<>>
    /\ cycle = <<>>
    /\ call = "none"
    /\ reads = 0
    /\ i = 0
    /\ retKind = "none"
    /\ rawData = NoRawData
    /\ data = NoData

InitDecode ==
    /\ Constructed
    /\ AuxIdle
    /\ pc = "decode"
    /\ \E b0 \in JoySamples, b1 \in JoySamples, b5 \in Bytes :
         \E b2 \in AccelSamples, b3 \in AccelSamples, b4 \in AccelSamples :
            readBuffer = (0 :> b0) @@ (1 :> b1) @@ (2 :> b2) @@ (3 :> b3)
                         @@ (4 :> b4) @@ (5 :> b5)

\* parseDeviceBuffer(readBuffer) on a filled buffer
parseCall ==
    /\ pc = "decode"
    /\ rawData' = parseDeviceBuffer(readBuffer)
    /\ pc' = "decoded"
    /\ UNCHANGED <<aux, arguments, members, thrown, trace, cycle, call, reads,
                   readBuffer, i, retKind, data>>

SpecDecode == InitDecode /\ [][parseCall]_vars

InitDecrypt ==
    /\ Constructed
    /\ pc = "decrypt"
    /\ readBuffer = <<>>
    /\ readByte \in Bytes
    /\ decrypted = 0
    /\ locking = FALSE
    /\ ThreadsIdle

\* decrypt(readByte)
decryptCall ==
    /\ pc = "decrypt"
    /\ decrypted' = decrypt(readByte)
    /\ pc' = "decrypted"
    /\ UNCHANGED <<readByte, threadState, arguments, members, thrown, trace, readState>>

SpecDecrypt == InitDecrypt /\ [][decryptCall]_vars

\* ------------------------------------------------------------ concurrent callers
\* Two threads call readRawData on one constructed driver.  Each bus call is
\* one step; the device and the bus never fail here.

\* Read calls each thread makes.
MaxThreadReads == 1

\* The device's register file read through its pointer: register p holds p.
DeviceRegister(p) == p % 256

\* The frame a request followed by 6 undisturbed reads delivers.
DeviceFrame == [k \in 0..5 |-> DeviceRegister(k)]

\* The callers' discipline: with the lock, a call starts only when it is free.
LockAllows(t) == locking => lock = 0

\* A thread is between its request write and its 6th read.
InWindow(t) == tpc[t] = "fetch_sleep" \/ (tpc[t] = "fetch_loop" /\ LoopContinues(ti[t]))

\* A bus call by thread t falls into every other thread's open window.
Intrudes(t) == [u \in Threads |-> intruded[u] \/ (u # t /\ InWindow(u))]

InitThreads ==
    /\ Constructed
    /\ pc = "Ready"
    /\ readBuffer = <<>>
    /\ readByte = 0
    /\ decrypted = 0
    /\ locking \in BOOLEAN
    /\ ThreadsIdle

\* Thread t calls readRawData, taking the callers' lock when they use one.
ThreadCall(t) ==
    /\ tpc[t] = "idle"
    /\ tcalls[t] < MaxThreadReads
    /\ LockAllows(t)
    /\ lock' = IF locking THEN t ELSE lock
    /\ tcalls' = [tcalls EXCEPT ![t] = @ + 1]
    /\ tpc' = [tpc EXCEPT ![t] = "fetch_write"]
    /\ ti' = [ti EXCEPT ![t] = 0]
    /\ tbuf' = [tbuf EXCEPT ![t] = <<>>]
    /\ traw' = [traw EXCEPT ![t] = NoRawData]
    /\ intruded' = [intruded EXCEPT ![t] = FALSE]
    /\ UNCHANGED <<locking, devPointer, readByte, decrypted, pc, arguments, members,
                   thrown, trace, readState>>

\* fetchDeviceBuffer without the request write.
fetchDeviceBufferByNoRequest(t) ==
    \/ /\ tpc[t] = "fetch_write"
       /\ tpc' = [tpc EXCEPT ![t] = "fetch_sleep"]
       /\ UNCHANGED <<devPointer, intruded, ti, tbuf>>
    \/ /\ tpc[t] = "fetch_sleep"
       /\ ti' = [ti EXCEPT ![t] = 0]
       /\ tpc' = [tpc EXCEPT ![t] = "fetch_loop"]
       /\ UNCHANGED <<devPointer, intruded, tbuf>>
    \/ /\ tpc[t] = "fetch_loop"
       /\ LoopContinues(ti[t])
       /\ tbuf' = [tbuf EXCEPT ![t] = (ti[t] :> DeviceRegister(devPointer)) @@ @]
       /\ devPointer' = devPointer + 1
       /\ intruded' = Intrudes(t)
       /\ ti' = [ti EXCEPT ![t] = @ + 1]
       /\ UNCHANGED tpc
    \/ /\ tpc[t] = "fetch_loop"
       /\ ~LoopContinues(ti[t])
       /\ tpc' = [tpc EXCEPT ![t] = "parse"]
       /\ UNCHANGED <<devPointer, intruded, ti, tbuf>>

\* fetchDeviceBuffer as run by thread t: the request write sets the device's
\* pointer to register 0x00, each read returns the register under the
\* pointer and advances it.
fetchDeviceBufferBy(t) ==
    \/ /\ tpc[t] = "fetch_write"
       /\ devPointer' = 0
       /\ intruded' = Intrudes(t)
       /\ tpc' = [tpc EXCEPT ![t] = "fetch_sleep"]
       /\ UNCHANGED <<ti, tbuf>>
    \/ /\ tpc[t] = "fetch_sleep"
       /\ ti' = [ti EXCEPT ![t] = 0]
       /\ tpc' = [tpc EXCEPT ![t] = "fetch_loop"]
       /\ UNCHANGED <<devPointer, intruded, tbuf>>
    \/ /\ tpc[t] = "fetch_loop"
       /\ LoopContinues(ti[t])
       /\ tbuf' = [tbuf EXCEPT ![t] = (ti[t] :> DeviceRegister(devPointer)) @@ @]
       /\ devPointer' = devPointer + 1
       /\ intruded' = Intrudes(t)
       /\ ti' = [ti EXCEPT ![t] = @ + 1]
       /\ UNCHANGED tpc
    \/ /\ tpc[t] = "fetch_loop"
       /\ ~LoopContinues(ti[t])
       /\ tpc' = [tpc EXCEPT ![t] = "parse"]
       /\ UNCHANGED <<devPointer, intruded, ti, tbuf>>

ThreadFetch(t) ==
    /\ fetchDeviceBufferBy(t)
    /\ UNCHANGED <<locking, lock, traw, tcalls, readByte, decrypted, pc, arguments,
                   members, thrown, trace, readState>>

\* Thread t returns from readRawData, its locals end, and it gives the lock
\* back.
ThreadReturn(t) ==
    /\ tpc[t] = "parse"
    /\ traw' = [traw EXCEPT ![t] = parseDeviceBuffer(tbuf[t])]
    /\ ti' = [ti EXCEPT ![t] = 0]
    /\ tbuf' = [tbuf EXCEPT ![t] = <<>>]
    /\ tpc' = [tpc EXCEPT ![t] = "returned"]
    /\ lock' = IF locking THEN 0 ELSE lock
    /\ UNCHANGED <<locking, tcalls, intruded, devPointer, readByte, decrypted,
                   pc, arguments, members, thrown, trace, readState>>

\* The caller has used the result; the thread may call again.
ThreadDone(t) ==
    /\ tpc[t] = "returned"
    /\ tpc' = [tpc EXCEPT ![t] = "idle"]
    /\ traw' = [traw EXCEPT ![t] = NoRawData]
    /\ intruded' = [intruded EXCEPT ![t] = FALSE]
    /\ UNCHANGED <<locking, lock, ti, tbuf, tcalls, devPointer, readByte,
                   decrypted, pc, arguments, members, thrown, trace, readState>>

NextThreads ==
    \E t \in Threads :
        \/ ThreadCall(t)
        \/ ThreadFetch(t)
        \/ ThreadReturn(t)
        \/ ThreadDone(t)

SpecThreads == InitThreads /\ [][NextThreads]_vars

\* ------------------------------------------------------------ observers

\* A logged call without its result.
Ops(log) == [k \in 1..Len(log) |-> SubSeq(log[k], 1, 4)]

IsPrefix(s, t) == Len(s) <= Len(t) /\ s = SubSeq(t, 1, Len(s))

\* The bus open has been issued and returned a valid handle.
OpenSucceeded == Len(trace) >= 1 /\ trace[1][1] = "setup" /\ trace[1][5] >= 0

OpenFailed == Len(trace) >= 1 /\ trace[1][1] = "setup" /\ trace[1][5] < 0

\* A read call has returned to the caller.
ReadReturned == pc = "Ready" /\ reads > 0

\* The 6 bytes the transport delivered in the current read call.
Fetched == [k \in 0..5 |-> cycle[k + 3][5]]

\* ------------------------------------------------------------ claims

\* C1: in encrypted mode readRawData returns the decode of the 6 decrypted
\* bytes; in plain mode it returns the decode of the bytes as fetched.
C1_ReadRawDecryptsWhenEncrypted ==
    (retKind = "raw" /\ \A k \in 0..5 : Fetched[k] \in 0..255) =>
        rawData = parseDeviceBuffer(IF encyptedModeEnabled
                                    THEN [k \in 0..5 |-> decrypt(Fetched[k])]
                                    ELSE Fetched)

\* C2: when one of the 6 byte reads of a fetch reports a failure (-1), the
\* read call ends with a TransportError and returns no reading.
C2_FailedReadYieldsTransportError ==
    (ReadReturned /\ \E k \in 3..8 : cycle[k][5] < 0) =>
        (retKind = "none" /\ thrown = "TransportError")

\* C3: a delay below 300 fails construction with a configuration error before
\* any bus operation, for either mode; a delay of exactly 300 is not rejected.
C3_DelayFloorBeforeBusIO ==
    /\ paramWait < 300 =>
         /\ pc \in {"ctor", "Failed"}
         /\ pc = "Failed" => thrown = "InvalidConfiguration"
         /\ trace = <<>> /\ cycle = <<>>
    /\ paramWait >= 300 => thrown # "InvalidConfiguration"

C3_Witness ==
    /\ paramWait = 299 /\ initializationMode = NOT_ENCRYPTED
    /\ pc = "Failed" /\ thrown = "InvalidConfiguration"

\* C4: when the bus open returns a negative handle, construction fails with a
\* transport error, the driver is Failed and never Ready, and no register
\* write, request write or byte read is ever issued.
C4_OpenFailureIsFatal ==
    OpenFailed =>
        /\ pc = "Failed" /\ thrown = "TransportError"
        /\ Len(trace) = 1 /\ cycle = <<>>
        /\ reads = 0 /\ retKind = "none"

C4_Witness == OpenFailed /\ pc = "Failed" /\ i2CPortFileDescriptor < 0

\* C5: a failed bus write aborts the operation in progress: after a failed
\* handshake register write the driver is not Ready, and after a failed
\* request write the read call returns no reading.
C5_FailedWriteAborts ==
    /\ (\E k \in 1..Len(trace) : trace[k][1] = "writeReg8" /\ trace[k][5] < 0) => ~InitDone
    /\ (ReadReturned /\ cycle[1][5] < 0) => retKind = "none"

\* C6: in Encrypted mode, after a successful open the constructor issues
\* exactly one register write (0x00 to register 0x40), then the configured
\* wait, then sets the flag to true and is Ready; nothing else is issued.
C6_EncryptedHandshake ==
    (initializationMode = ENCRYPTED /\ OpenSucceeded) =>
        /\ IsPrefix(Ops(trace), << <<"setup", 0, 82, 0>>,
                                   <<"writeReg8", trace[1][5], 64, 0>>,
                                   <<"sleep", 0, paramWait, 0>> >>)
        /\ pc = "enc_assign" => Len(trace) = 3
        /\ InitDone => (Len(trace) = 3 /\ encyptedModeEnabled = TRUE)
        /\ pc # "Failed"

C6_Witness ==
    initializationMode = ENCRYPTED /\ pc = "Ready" /\ reads = 0 /\ paramWait = 300

\* C7: in Plain mode, after a successful open the constructor issues exactly
\* two register writes, 0x55 to 0xF0 and then 0x00 to 0xFB, then the
\* configured wait, then sets the flag to false and is Ready; the wait is
\* never between the two writes.
C7_PlainHandshake ==
    (initializationMode = NOT_ENCRYPTED /\ OpenSucceeded) =>
        /\ IsPrefix(Ops(trace), << <<"setup", 0, 82, 0>>,
                                   <<"writeReg8", trace[1][5], 240, 85>>,
                                   <<"writeReg8", trace[1][5], 251, 0>>,
                                   <<"sleep", 0, paramWait, 0>> >>)
        /\ pc = "plain_assign" => Len(trace) = 4
        /\ InitDone => (Len(trace) = 4 /\ encyptedModeEnabled = FALSE)
        /\ pc # "Failed"

C7_Witness ==
    initializationMode = NOT_ENCRYPTED /\ pc = "Ready" /\ reads = 0 /\ paramWait = 300

\* C8: every fetch issues one write of 0x00, then one wait of the configured
\* delay, then exactly 6 byte reads stored in positions 0..5 in read order;
\* no second request write and no 7th read.
C8_FetchSequence ==
    /\ IsPrefix(Ops(cycle),
                << <<"write", i2CPortFileDescriptor, 0, 0>>,
                   <<"sleep", 0, paramWait, 0>> >>
                \o [k \in 1..6 |-> <<"read", i2CPortFileDescriptor, 0, 0>>])
    /\ DOMAIN readBuffer = 0..(Len(cycle) - 3)
    /\ \A k \in DOMAIN readBuffer : readBuffer[k] = cycle[k + 3][5]
    /\ (pc \in {"parse", "repackage"} \/ ReadReturned) => Len(cycle) = 8

C8_Witness ==
    /\ reads = 2 /\ pc = "parse"
    /\ readBuffer[0] = 229 /\ readBuffer[1] = 0 /\ readBuffer[5] = 229

\* C9: once the constructor has returned, isEncryptedModeEnabled() is true
\* exactly when the mode was Encrypted, in every state reached by any
\* sequence of readRawData and readDeviceValues calls.
C9_FlagMatchesMode ==
    InitDone => (isEncryptedModeEnabled <=> initializationMode = ENCRYPTED)

C9_Witness ==
    /\ ReadReturned /\ reads = 2 /\ retKind = "structured"
    /\ initializationMode = NOT_ENCRYPTED /\ ~isEncryptedModeEnabled

\* C10: no request write and no byte read of a read call is issued before the
\* handshake has completed: whenever a read call has started, the constructor
\* has returned with its last register write and settling wait logged, and no
\* handshake operation is issued once a read call has started.
C10_NoFetchBeforeReady ==
    /\ [](   (cycle # <<>> \/ reads > 0 \/ call # "none")
          => /\ InitDone
             /\ Len(trace) >= 3
             /\ trace[Len(trace)][1] = "sleep"
             /\ trace[Len(trace) - 1][1] = "writeReg8")
    /\ [][trace' # trace => (cycle = <<>> /\ reads = 0)]_vars

C10_Witness == pc = "fetch_loop" /\ Len(cycle) = 5 /\ reads = 1

\* C11: readDeviceValues returns joystick, accelerometer and button values
\* equal field by field to the RawNunchuckData readRawData produces for the
\* same 6 bytes (button C as c, button Z as z), and issues exactly the bus
\* operations of one readRawData call: one request write and 6 reads.
C11_StructuredEqualsRaw ==
    retKind = "structured" =>
        LET raw == parseDeviceBuffer(Fetched)
            s == StructuredReading(data)
        IN  /\ rawData = raw
            /\ s.joystick.x = raw.joystickPositionX
            /\ s.joystick.y = raw.joystickPositionY
            /\ s.accelerometer.x = raw.accelerationOnX
            /\ s.accelerometer.y = raw.accelerationOnY
            /\ s.accelerometer.z = raw.accelerationOnZ
            /\ s.buttons.c = raw.buttonCState
            /\ s.buttons.z = raw.buttonZState
            /\ Cardinality({k \in 1..Len(cycle) : cycle[k][1] = "write"}) = 1
            /\ Cardinality({k \in 1..Len(cycle) : cycle[k][1] = "read"}) = 6
            /\ Cardinality({k \in 1..Len(cycle) : cycle[k][1] = "writeReg8"}) = 0

C11_Witness ==
    /\ retKind = "structured" /\ reads = 2
    /\ Fetched = (0 :> 229) @@ (1 :> 0) @@ (2 :> 229) @@ (3 :> 0) @@ (4 :> 229) @@ (5 :> 229)
    /\ StructuredReading(data).buttons.c = 0
    /\ StructuredReading(data).buttons.z = 1

\* C13: every RawNunchuckData readRawData returns, in either mode, has its
\* three accelerations in 0..1023 and its two button states in {0, 1}, for
\* every value the transport's byte read can return.
C13_ReadingInRange ==
    retKind = "raw" =>
        /\ rawData.accelerationOnX \in 0..1023
        /\ rawData.accelerationOnY \in 0..1023
        /\ rawData.accelerationOnZ \in 0..1023
        /\ rawData.buttonCState \in {0, 1}
        /\ rawData.buttonZState \in {0, 1}

\* C12: for every frame of 6 bytes, parseDeviceBuffer yields joystickX = b0,
\* joystickY = b1, accelX = 4*b2 + bits 7..6 of b5, accelY = 4*b3 + bits 5..4
\* of b5, accelZ = 4*b4 + bits 3..2 of b5, buttonC = bit 1 of b5, buttonZ =
\* bit 0 of b5; the frame [0x80, 0x80, 0x10, 0x20, 0x30, 0xC3] gives
\* accelX = 67, buttonC = 1, buttonZ = 1.
C12_DecodeFields ==
    pc = "decoded" =>
        /\ rawData.joystickPositionX = readBuffer[0]
        /\ rawData.joystickPositionY = readBuffer[1]
        /\ rawData.accelerationOnX = 4 * readBuffer[2] + ((readBuffer[5] \div 64) % 4)
        /\ rawData.accelerationOnY = 4 * readBuffer[3] + ((readBuffer[5] \div 16) % 4)
        /\ rawData.accelerationOnZ = 4 * readBuffer[4] + ((readBuffer[5] \div 4) % 4)
        /\ rawData.buttonCState = ((readBuffer[5] \div 2) % 2)
        /\ rawData.buttonZState = readBuffer[5] % 2
        /\ readBuffer = (0 :> 128) @@ (1 :> 128) @@ (2 :> 16) @@ (3 :> 32) @@ (4 :> 48) @@ (5 :> 195)
             => /\ rawData.accelerationOnX = 67
                /\ rawData.buttonCState = 1
                /\ rawData.buttonZState = 1

C12_Witness ==
    /\ pc = "decoded"
    /\ readBuffer = (0 :> 128) @@ (1 :> 128) @@ (2 :> 16) @@ (3 :> 32) @@ (4 :> 48) @@ (5 :> 195)
    /\ rawData.accelerationOnY = 128

\* C14: for every byte b, decrypt(b) = ((b XOR 0x17) + 0x17) mod 256, a byte.
C14_DecryptTruncates ==
    pc = "decrypted" =>
        /\ decrypted = (BitXor(readByte, 23) + 23) % 256
        /\ decrypted \in 0..255

\* C15: decrypt(0x00) = 0x2E and decrypt(0xFF) = 0x0F.
C15_DecryptVectors ==
    /\ (pc = "decrypted" /\ readByte = 0) => decrypted = 46
    /\ (pc = "decrypted" /\ readByte = 255) => decrypted = 15

\* C15, amended: decrypt(0x00) = 0x2E and decrypt(0xFF) = 0xFF.
C15_DecryptVectorsAmended ==
    /\ (pc = "decrypted" /\ readByte = 0) => decrypted = 46
    /\ (pc = "decrypted" /\ readByte = 255) => decrypted = 255

C15_Witness == pc = "decrypted" /\ readByte = 255 /\ decrypted > 15

\* C16: construction with a mode that is neither ENCRYPTED nor NOT_ENCRYPTED
\* (and a valid delay) fails with an invalid-mode error: it never becomes
\* Ready and issues no handshake register write.
C16_InvalidModeError ==
    (initializationMode \notin {ENCRYPTED, NOT_ENCRYPTED} /\ paramWait >= 300) =>
        /\ ~InitDone
        /\ \A k \in 1..Len(trace) : trace[k][1] # "writeReg8"
        /\ pc = "Failed" => thrown = "InvalidMode"

\* C16, amended: such a construction never becomes Ready and issues no
\* handshake register write; it aborts with the invalid-mode error when the
\* delay is at least 300 and the bus open returned a valid handle.
C16_InvalidModeAborts ==
    initializationMode \notin {ENCRYPTED, NOT_ENCRYPTED} =>
        /\ pc \in {"ctor", "initI2C", "switch", "Failed"}
        /\ \A k \in 1..Len(trace) : trace[k][1] # "writeReg8"
        /\ cycle = <<>> /\ reads = 0
        /\ OpenSucceeded => pc \in {"switch", "Failed"}
        /\ (pc = "Failed" /\ paramWait >= 300 /\ OpenSucceeded) => thrown = "InvalidMode"

C16_Witness ==
    /\ initializationMode = UnrecognizedMode /\ pc = "Failed"
    /\ thrown = "InvalidMode" /\ OpenSucceeded

\* C18: readRawData and readDeviceValues leave the handle, the stored delay
\* and the flag unchanged, and what a call returns is a function of the 6
\* bytes fetched in that call alone.
C18_StatelessReads ==
    /\ [](ReadReturned =>
            /\ retKind = "raw" => rawData = parseDeviceBuffer(Fetched)
            /\ retKind = "structured" => data = NunchuckDataOf(parseDeviceBuffer(Fetched)))
    /\ [][InitDone => UNCHANGED members]_vars

C18_Witness ==
    /\ ReadReturned /\ reads = 2 /\ retKind = "raw"
    /\ rawData.joystickPositionX = 229 /\ rawData.joystickPositionY = 0

\* C19: on a constructed driver the stored delay is at least 300 and is the
\* value given at construction (500 from the mode-only constructor), and
\* every settling wait, of the handshake and of each fetch, waits that value.
C19_DelayFixed ==
    /\ InitDone =>
         /\ circuitAdaptationWaitMicrosecons = paramWait
         /\ circuitAdaptationWaitMicrosecons >= 300
         /\ ctor = "mode_only" => circuitAdaptationWaitMicrosecons = 500
    /\ \A k \in 1..Len(trace) : trace[k][1] = "sleep" => trace[k][3] = paramWait
    /\ \A k \in 1..Len(cycle) : cycle[k][1] = "sleep" => cycle[k][3] = paramWait

C19_Witness ==
    /\ InitDone /\ paramWait = 300 /\ reads = 2
    /\ Len(cycle) >= 2 /\ cycle[2] = <<"sleep", 0, 300, 0, 0>>
    /\ trace[Len(trace)] = <<"sleep", 0, 300, 0, 0>>

\* C20: the mode is validated only after the bus has been opened: a
\* construction with an unrecognized mode and a valid delay performs the bus
\* open, and fails with the open's transport error when the open fails and
\* with the invalid-mode error otherwise; the delay check is the only check
\* that precedes bus I/O.
C20_ModeCheckedAfterOpen ==
    /\ thrown = "InvalidMode" => (OpenSucceeded /\ Len(trace) = 1)
    /\ (initializationMode \notin {ENCRYPTED, NOT_ENCRYPTED} /\ paramWait >= 300 /\ pc = "Failed") =>
         /\ Len(trace) = 1 /\ trace[1][1] = "setup"
         /\ thrown = IF trace[1][5] < 0 THEN "TransportError" ELSE "InvalidMode"
    /\ (pc = "Failed" /\ trace = <<>>) => thrown = "InvalidConfiguration"
    /\ thrown = "InvalidConfiguration" => trace = <<>>

C20_Witness ==
    /\ initializationMode = UnrecognizedMode /\ paramWait = 300
    /\ OpenFailed /\ thrown = "TransportError"

\* C17: when the callers hold one lock per driver for a full read call, no
\* bus operation of one thread falls between another thread's request write
\* and its 6th read, and every frame is the 6 bytes of its own request;
\* without the lock a state is reachable where a thread's frame mixes bytes
\* of two requests.
C17_LockSerializesCycles ==
    locking =>
        \A t \in Threads :
            /\ ~intruded[t]
            /\ tpc[t] = "parse" => tbuf[t] = DeviceFrame
            /\ tpc[t] = "returned" => traw[t] = parseDeviceBuffer(DeviceFrame)
            /\ tpc[t] \notin {"idle", "returned"} => lock = t

C17_Witness ==
    /\ ~locking
    /\ \E t \in Threads :
         /\ tpc[t] = "returned" /\ intruded[t]
         /\ traw[t] # parseDeviceBuffer(DeviceFrame)

=============================================================================
